---- MODULE Spec2Model ----
(***************************************************************************)
(* Draft lifecycle of InkDAO/edge-functions: the signed mutation endpoints *)
(* of netlify/edge-functions/files.ts (create, update, publish, delete),   *)
(* the two publication webhooks, the login proof, and the content store    *)
(* and chain they talk to.  Every await on the store is a step of its own, *)
(* so the handlers of concurrent requests interleave between their store   *)
(* calls.  A handler step that answers is described by the response it     *)
(* writes; a step that answers without touching the store leaves the state *)
(* as it is.                                                               *)
(***************************************************************************)
EXTENDS Integers, Sequences, FiniteSets, TLC

VARIABLES
    files,       \* private files of the content store, oldest first
    groups,      \* private groups of the content store: their names, oldest first
    thumbnails,  \* public uploads named thumbnail.png: the group each one names
    chain,       \* cid -> author of the AssetAdded event that minted it, or NoAuthor
    now,         \* Date.now(), in milliseconds
    reqs,        \* slot -> the request a handler is in the middle of, or Idle
    faults,      \* store and chain calls that have thrown so far
    applied,     \* history: the signed intents whose mutation succeeded
    base,        \* history: the store before the first webhook delivery
    deliveries,  \* history: webhook deliveries of the minted event, begun and answered,
                 \* and the channels that have received 200
    probe        \* the last proof put to an authentication routine, and its verdict

vars == <<files, groups, thumbnails, chain, now, reqs, faults,
          applied, base, deliveries, probe>>

history == <<applied, base, deliveries, probe>>

----------------------------------------------------------------------------
(* Bounds of the model *)

MaxFiles == 2      \* private files held by the store at one time
MaxGroups == 1     \* groups ever created
MaxInflight == 2   \* handlers that are between two awaits at one time
MaxMints == 1      \* cids minted on the chain
MaxFaults == 1     \* store and chain calls that throw

(* Program constants *)

Window == 60       \* seconds a typed-data proof stays fresh
MsPerSec == 1000   \* Date.now() / 1000

StartTime == 2 * Window * MsPerSec

----------------------------------------------------------------------------
(* Addresses.  A wallet is known by its checksummed form; toLowerCase()    *)
(* maps both spellings to the lowercase one, and leaves other strings be.  *)

Wallets == {"0xAA", "0xBB"}

ToLower(s) ==
    CASE s = "0xAA" -> "0xaa"
      [] s = "0xBB" -> "0xbb"
      [] s = "Art" -> "art"
      [] OTHER -> s

ClaimedAddresses == {"0xAA", "0xbb"}

Cids == {"Qm1", "Qm2"}
Contents == {"draft1", "draft2"}

\* The store derives the cid from the uploaded bytes.
CidOf(content) == IF content = "draft1" THEN "Qm1" ELSE "Qm2"

Nonces == {"n1", "n2"}

\* A signed request body: salt.message = {timestamp, nonce}, the claimed
\* address, and a signature made by `signer` over the typed data.
Proof(signer, address, nonce, timestamp) ==
    [signer |-> signer, address |-> address, nonce |-> nonce, timestamp |-> timestamp]

FreshTimestamp == StartTime \div MsPerSec - Window
StaleTimestamp == StartTime \div MsPerSec - Window - 1

\* The proofs clients send: each wallet's own, fresh, under either nonce;
\* a wallet's signature under the other wallet's address; a stale proof.
Proofs ==
    { Proof("0xAA", "0xAA", n, FreshTimestamp) : n \in Nonces }
    \cup { Proof("0xBB", "0xbb", n, FreshTimestamp) : n \in Nonces }
    \cup { Proof("0xBB", "0xAA", "n2", FreshTimestamp),
           Proof("0xAA", "0xAA", "n2", StaleTimestamp) }

NoAuthor == "none"
Idle == [op |-> "idle"]
Slots == 1 .. MaxInflight

\* c.json(..., {status}): the status code and the text of the body
Response(code, text) == [code |-> code, text |-> text]

\* the handler has not answered yet: it goes on to its next store call
Continue == Response(0, "")

----------------------------------------------------------------------------
(* viem verifyTypedData: the signature recovers to its signer when it was  *)
(* made over this primaryType and message, and the recovered address is    *)
(* compared with the claimed one without regard to case.                   *)

verifyTypedData(p, primaryType) ==
    ToLower(p.signer) = ToLower(p.address)

\* what parseInt and Date.getTime give for a text that is no number or date;
\* every comparison with it is false
NaN == -1

\* if (Date.now() / 1000 - parseInt(salt.message.timestamp) > 60)
TimestampExpired(timestamp, t) ==
    timestamp # NaN /\ t - timestamp * MsPerSec > Window * MsPerSec

----------------------------------------------------------------------------
(* The content store (Pinata private files).  A store lists its files      *)
(* oldest first; the id of a file is its place in that list.  When a file  *)
(* is deleted the places after it move up, and so do the ids that handlers *)
(* in flight hold; the id of the deleted file becomes Gone, an id no file  *)
(* has.                                                                    *)

Gone == 0

FileIds == DOMAIN files

\* pinata.files.private.list().cid(cid): the ids of the files with that cid
ListByCid(store, cid) == { i \in DOMAIN store : store[i].cid = cid }

FirstOf(ids) == CHOOSE i \in ids : \A j \in ids : i <= j

\* an update that puts its keyvalues in the place of the file's
ReplaceKeyvalues(kv, upd) == upd

\* keyvalues given to an update are merged into the file's keyvalues
MergeKeyvalues(kv, upd) ==
    [k \in DOMAIN kv \cup DOMAIN upd |-> IF k \in DOMAIN upd THEN upd[k] ELSE kv[k]]

\* pinata.files.private.update({id, keyvalues})
UpdateKeyvalues(store, id, upd) ==
    [store EXCEPT ![id].keyvalues = MergeKeyvalues(store[id].keyvalues, upd)]

\* pinata.upload.private.json(content).group(group).name(name).keyvalues(kv)
Upload(content, group, name, kv) ==
    Append(files, [cid |-> CidOf(content), name |-> name, group_id |-> group,
                   keyvalues |-> kv])

\* pinata.files.private.delete([id])
Remove(id) == [i \in 1 .. (Len(files) - 1) |-> IF i < id THEN files[i] ELSE files[i + 1]]

\* the ids held by the handlers in flight, after the file `id` is deleted
Renumber(rs, id) ==
    [s \in DOMAIN rs |->
        IF "fileId" \notin DOMAIN rs[s] THEN rs[s]
        ELSE IF rs[s].fileId = id THEN [rs[s] EXCEPT !.fileId = Gone]
        ELSE IF rs[s].fileId > id THEN [rs[s] EXCEPT !.fileId = @ - 1]
        ELSE rs[s]]

NullFile == Gone

\* A lookup that passes over the files that are onchain and returns the
\* first file of the address that is not.
FileByCidSkipOnchain(store, cid, authorizedAddress) ==
    LET open == { i \in ListByCid(store, cid) :
                    /\ store[i].keyvalues.owner = ToLower(authorizedAddress)
                    /\ store[i].keyvalues.status # "onchain" } IN
    IF open = {} THEN NullFile ELSE FirstOf(open)

\* A lookup that does not compare the owner.
FileByCidAnyOwner(store, cid, authorizedAddress) ==
    IF ListByCid(store, cid) = {} THEN NullFile
    ELSE LET file == FirstOf(ListByCid(store, cid)) IN
         IF store[file].keyvalues.status = "onchain" THEN NullFile ELSE file

\* The body of getFileByCid over a given store: the id of the first file
\* with the cid when it is owned by the address and not onchain, else null.
FileByCid(store, cid, authorizedAddress) ==
    IF ListByCid(store, cid) = {} THEN NullFile
    ELSE LET file == FirstOf(ListByCid(store, cid)) IN
         IF store[file].keyvalues.owner # ToLower(authorizedAddress) THEN NullFile
         ELSE IF store[file].keyvalues.status = "onchain" THEN NullFile
         ELSE file

\* getFileByCid(cid, authorizedAddress): null also when the list call throws
getFileByCid(cid, authorizedAddress, ok) ==
    IF ~ok THEN NullFile ELSE FileByCid(files, cid, authorizedAddress)

\* deleteFile(fileId): the store without the file; the store as it is when
\* the call throws (deleteFile then returns null) or the file is gone
deleteFile(fileId, ok) ==
    IF ok /\ fileId \in FileIds THEN Remove(fileId) ELSE files

FreeSlot == CHOOSE s \in Slots : reqs[s] = Idle /\ \A t \in Slots : t < s => reqs[t] # Idle

\* the handlers in flight
InFlight == { s \in Slots : reqs[s] # Idle }

\* A new handler starts when a slot is free; once a call has thrown,
\* handlers run one at a time.
HasFreeSlot ==
    /\ \E s \in Slots : reqs[s] = Idle
    /\ faults = 0 \/ InFlight = {}

\* uploads that handlers in flight may still make
PendingUploads ==
    Cardinality({ s \in Slots : reqs[s].op \in {"create", "update"} /\ reqs[s].pc # "status" })

RoomForUpload == Len(files) + PendingUploads < MaxFiles

\* A call to the store or the chain: it returns (ok) or throws.  At most
\* MaxFaults calls throw, and none while another handler is in flight.
Call(ok) ==
    /\ ok \/ (faults < MaxFaults /\ Cardinality(InFlight) <= 1)
    /\ faults' = IF ok THEN faults ELSE faults + 1

NoProbe == [routine |-> "none"]
NoIntents == [once |-> {}, again |-> {}]
NoDeliveries == [begun |-> 0, answered |-> 0, settled |-> {}]

----------------------------------------------------------------------------
Init ==
    /\ files = <<>>
    /\ groups = <<>>
    /\ thumbnails = {}
    /\ chain = [c \in Cids |-> NoAuthor]
    /\ now = StartTime
    /\ reqs = [s \in Slots |-> Idle]
    /\ faults = 0
    /\ applied = NoIntents
    /\ base = <<>>
    /\ deliveries = NoDeliveries
    /\ probe = NoProbe

----------------------------------------------------------------------------
(* POST /create/group *)

\* verifyTypedData, the timestamp check, then groups.private.create, which
\* is awaited outside the try: when it throws the framework answers 500
CreateGroupResponse(p, ok) ==
    IF ~verifyTypedData(p, "CreateFile") THEN Response(401, "Authentication failed")
    ELSE IF TimestampExpired(p.timestamp, now) THEN Response(401, "Timestamp expired")
    ELSE IF ~ok THEN Response(500, "Internal Server Error")
    ELSE Continue

\* the handler's first steps, while the store holds fewer than limit groups
CreateGroupIn(limit, p, content, ok) ==
    /\ HasFreeSlot
    /\ RoomForUpload
    /\ Len(groups) < limit
    /\ IF verifyTypedData(p, "CreateFile") /\ ~TimestampExpired(p.timestamp, now)
       THEN Call(ok) ELSE UNCHANGED faults
    /\ IF CreateGroupResponse(p, ok) = Continue
       THEN /\ groups' = Append(groups, p.nonce)
            /\ reqs' = [reqs EXCEPT ![FreeSlot] =
                         [op |-> "create", pc |-> "upload", group |-> Len(groups) + 1,
                          nonce |-> p.nonce, address |-> p.address, content |-> content]]
       ELSE UNCHANGED <<groups, reqs>>
    /\ UNCHANGED <<files, thumbnails, chain, now>>

CreateGroup(p, content, ok) == CreateGroupIn(MaxGroups, p, content, ok)

\* upload.private.json(content).group(group.id).name(groupName).keyvalues(...)
CreateUploadResponse(s, ok) ==
    IF ok THEN Continue ELSE Response(500, "Failed to upload file")

CreateUpload(s, ok) ==
    /\ reqs[s].op = "create" /\ reqs[s].pc = "upload"
    /\ Call(ok)
    /\ IF CreateUploadResponse(s, ok) = Continue
       THEN /\ files' = Upload(reqs[s].content, reqs[s].group, reqs[s].nonce,
                               [owner |-> ToLower(reqs[s].address), status |-> "pending"])
            /\ reqs' = [reqs EXCEPT ![s] =
                         [op |-> "create", pc |-> "status", fileId |-> Len(files) + 1]]
       ELSE /\ reqs' = [reqs EXCEPT ![s] = Idle]
            /\ UNCHANGED files
    /\ UNCHANGED <<groups, thumbnails, chain, now>>

\* files.private.update({id: upload.id, keyvalues: {status: "pending"}})
CreateStatusResponse(s, ok) ==
    IF ok /\ reqs[s].fileId \in FileIds THEN Response(200, "")
    ELSE Response(500, "Failed to upload file")

CreateStatus(s, ok) ==
    /\ reqs[s].op = "create" /\ reqs[s].pc = "status"
    /\ Call(ok)
    /\ IF CreateStatusResponse(s, ok).code = 200
       THEN files' = UpdateKeyvalues(files, reqs[s].fileId, [status |-> "pending"])
       ELSE UNCHANGED files
    /\ reqs' = [reqs EXCEPT ![s] = Idle]
    /\ UNCHANGED <<groups, thumbnails, chain, now>>

----------------------------------------------------------------------------
(* POST /update/file *)

\* verifyTypedData, the timestamp check, getFileByCid, the file-name check
\* the same checks without the comparison of the file name with the nonce
UpdateFileResponseNoNameCheck(p, cid, ok) ==
    LET file == getFileByCid(cid, ToLower(p.address), ok) IN
    IF ~verifyTypedData(p, "UpdateFile") THEN Response(401, "Authentication failed")
    ELSE IF TimestampExpired(p.timestamp, now) THEN Response(401, "Timestamp expired")
    ELSE IF file = NullFile THEN Response(404, "No file found")
    ELSE Continue

UpdateFileResponse(p, cid, ok) ==
    LET file == getFileByCid(cid, ToLower(p.address), ok) IN
    IF ~verifyTypedData(p, "UpdateFile") THEN Response(401, "Authentication failed")
    ELSE IF TimestampExpired(p.timestamp, now) THEN Response(401, "Timestamp expired")
    ELSE IF file = NullFile THEN Response(404, "No file found")
    ELSE IF files[file].name = p.nonce THEN Response(400, "File already updated")
    ELSE Continue

UpdateFile(p, cid, content, ok) ==
    /\ HasFreeSlot
    /\ RoomForUpload
    /\ IF verifyTypedData(p, "UpdateFile") /\ ~TimestampExpired(p.timestamp, now)
       THEN Call(ok) ELSE UNCHANGED faults
    /\ IF UpdateFileResponse(p, cid, ok) = Continue
       THEN LET file == getFileByCid(cid, ToLower(p.address), ok) IN
            reqs' = [reqs EXCEPT ![FreeSlot] =
                      [op |-> "update", pc |-> "delete", cid |-> cid, fileId |-> file,
                       group |-> files[file].group_id, nonce |-> p.nonce,
                       address |-> p.address, content |-> content]]
       ELSE UNCHANGED reqs
    /\ UNCHANGED <<files, groups, thumbnails, chain, now>>

\* await deleteFile(file.id): its result is not looked at
UpdateDelete(s, ok) ==
    /\ reqs[s].op = "update" /\ reqs[s].pc = "delete"
    /\ Call(ok)
    /\ files' = deleteFile(reqs[s].fileId, ok)
    /\ reqs' = IF files' = files
               THEN [reqs EXCEPT ![s].pc = "upload"]
               ELSE Renumber([reqs EXCEPT ![s].pc = "upload"], reqs[s].fileId)
    /\ UNCHANGED <<groups, thumbnails, chain, now>>

\* a handler that blames the caller for a failed upload
UpdateUploadResponseBadRequest(s, ok) ==
    IF ok THEN Response(200, "") ELSE Response(400, "Failed to upload file")

\* upload.private.json(content).group(file.group_id).name(fileName).keyvalues(...)
UpdateUploadResponse(s, ok) ==
    IF ok THEN Response(200, "") ELSE Response(500, "Failed to upload file")

UpdateUpload(s, ok) ==
    /\ reqs[s].op = "update" /\ reqs[s].pc = "upload"
    /\ Call(ok)
    /\ IF UpdateUploadResponse(s, ok).code = 200
       THEN files' = Upload(reqs[s].content, reqs[s].group, reqs[s].nonce,
                            [owner |-> ToLower(reqs[s].address), status |-> "pending"])
       ELSE UNCHANGED files
    /\ reqs' = [reqs EXCEPT ![s] = Idle]
    /\ UNCHANGED <<groups, thumbnails, chain, now>>

----------------------------------------------------------------------------
(* POST /publish/file *)

ToISOString(t) == <<"iso", t>>

\* hashtags.split(',').map(tag => tag.trim().toLowerCase()), then
\* reduce((acc, tag) => { acc[tag] = tag }), then publishedAt
PublishKeyvalues(hashtags, t) ==
    LET tags == { ToLower(hashtags[i]) : i \in DOMAIN hashtags } IN
    [k \in tags \cup {"publishedAt"} |-> IF k = "publishedAt" THEN ToISOString(t) ELSE k]

\* hashtags a client may send: a tag, and the names of the reserved keys
HashtagInputs == { <<"Art">>, <<"status", "owner">> }

\* the thumbnail check, verifyTypedData, the timestamp check, getFileByCid
PublishFileResponse(p, cid, thumbnail, ok) ==
    LET file == getFileByCid(cid, ToLower(p.address), ok) IN
    IF ~thumbnail THEN Response(400, "File is required")
    ELSE IF ~verifyTypedData(p, "PublishFile") THEN Response(401, "Authentication failed")
    ELSE IF TimestampExpired(p.timestamp, now) THEN Response(401, "Timestamp expired")
    ELSE IF file = NullFile THEN Response(404, "No file found")
    ELSE Continue

PublishFile(p, cid, hashtags, thumbnail, ok) ==
    /\ HasFreeSlot
    /\ IF thumbnail /\ verifyTypedData(p, "PublishFile")
          /\ ~TimestampExpired(p.timestamp, now)
       THEN Call(ok) ELSE UNCHANGED faults
    /\ IF PublishFileResponse(p, cid, thumbnail, ok) = Continue
       THEN LET file == getFileByCid(cid, ToLower(p.address), ok) IN
            reqs' = [reqs EXCEPT ![FreeSlot] =
                      [op |-> "publish", pc |-> "tags", fileId |-> file,
                       group |-> files[file].group_id, hashtags |-> hashtags]]
       ELSE UNCHANGED reqs
    /\ UNCHANGED <<files, groups, thumbnails, chain, now>>

\* files.private.update({id: file.id, keyvalues: {...keyvalues, publishedAt}})
PublishTagsResponse(s, ok) ==
    IF ok /\ reqs[s].fileId \in FileIds THEN Continue
    ELSE Response(500, "Failed to upload file")

PublishTags(s, ok) ==
    /\ reqs[s].op = "publish" /\ reqs[s].pc = "tags"
    /\ Call(ok)
    /\ IF PublishTagsResponse(s, ok) = Continue
       THEN /\ files' = UpdateKeyvalues(files, reqs[s].fileId,
                                        PublishKeyvalues(reqs[s].hashtags, now))
            /\ reqs' = [reqs EXCEPT ![s] =
                         [op |-> "publish", pc |-> "thumbnail", group |-> reqs[s].group]]
       ELSE /\ reqs' = [reqs EXCEPT ![s] = Idle]
            /\ UNCHANGED files
    /\ UNCHANGED <<groups, thumbnails, chain, now>>

\* upload.public.file(thumbnail).name('thumbnail.png').keyvalues({group})
PublishThumbnailResponse(s, ok) ==
    IF ok THEN Response(200, "") ELSE Response(500, "Failed to upload file")

PublishThumbnail(s, ok) ==
    /\ reqs[s].op = "publish" /\ reqs[s].pc = "thumbnail"
    /\ Call(ok)
    /\ IF PublishThumbnailResponse(s, ok).code = 200
       THEN thumbnails' = thumbnails \cup {reqs[s].group}
       ELSE UNCHANGED thumbnails
    /\ reqs' = [reqs EXCEPT ![s] = Idle]
    /\ UNCHANGED <<files, groups, chain, now>>

----------------------------------------------------------------------------
(* POST /delete/file *)

\* postCidToTokenId(cid) !== 0n
PublishedOnChain(cid) == chain[cid] # NoAuthor

\* the chain check, which is awaited outside any try, then verifyTypedData,
\* the timestamp check, getFileByCid, the file-name check
DeleteFileResponse(p, cid, chainOk, ok) ==
    LET file == getFileByCid(cid, ToLower(p.address), ok) IN
    IF ~chainOk THEN Response(500, "Internal Server Error")
    ELSE IF PublishedOnChain(cid) THEN Response(400, "File is published on chain")
    ELSE IF ~verifyTypedData(p, "DeleteFile") THEN Response(401, "Authentication failed")
    ELSE IF TimestampExpired(p.timestamp, now) THEN Response(401, "Timestamp expired")
    ELSE IF file = NullFile THEN Response(404, "No file found")
    ELSE IF files[file].name = p.nonce THEN Response(400, "File already deleted")
    ELSE Continue

DeleteFile(p, cid, chainOk, ok) ==
    /\ HasFreeSlot
    /\ chainOk \/ ok
    /\ IF ~chainOk THEN Call(FALSE)
       ELSE IF ~PublishedOnChain(cid) /\ verifyTypedData(p, "DeleteFile")
               /\ ~TimestampExpired(p.timestamp, now)
       THEN Call(ok) ELSE UNCHANGED faults
    /\ IF DeleteFileResponse(p, cid, chainOk, ok) = Continue
       THEN LET file == getFileByCid(cid, ToLower(p.address), ok) IN
            reqs' = [reqs EXCEPT ![FreeSlot] =
                      [op |-> "delete", pc |-> "delete", fileId |-> file,
                       nonce |-> p.nonce, address |-> p.address]]
       ELSE UNCHANGED reqs
    /\ UNCHANGED <<files, groups, thumbnails, chain, now>>

\* const deletedFile = await deleteFile(file.id)
DeleteDeleteResponse(s, ok) ==
    IF ok THEN Response(200, "") ELSE Response(500, "Failed to delete file")

DeleteDelete(s, ok) ==
    /\ reqs[s].op = "delete" /\ reqs[s].pc = "delete"
    /\ Call(ok)
    /\ files' = deleteFile(reqs[s].fileId, ok)
    /\ reqs' = IF files' = files
               THEN [reqs EXCEPT ![s] = Idle]
               ELSE Renumber([reqs EXCEPT ![s] = Idle], reqs[s].fileId)
    /\ UNCHANGED <<groups, thumbnails, chain, now>>

----------------------------------------------------------------------------
(* Webhook transport: HMAC-SHA256 rendered as hex.  A digest is known only *)
(* by the key and the bytes it was computed from.                          *)

HmacHex(key, data) == <<"hmac", key, data>>

AlchemySigningKey == "alchemy-key"
QuickNodeSecurityToken == "quicknode-token"
Missing == <<>>

\* a validation that accepts every signature
validateAlchemyAnything(body, signature, signingKey) == TRUE

validateAlchemySignature(body, signature, signingKey) ==
    signature = HmacHex(signingKey, body)

\* signatureData = nonce + timestamp + body
validateQuickNodeSignature(body, nonce, timestamp, signature, securityToken) ==
    signature = HmacHex(securityToken, nonce \o timestamp \o body)

(* Event logs.  parseLog gives the event's name and arguments, null for a  *)
(* log of no event of the ABI.                                             *)

AssetAdded(cid, author) == [name |-> "AssetAdded", assetCid |-> cid, author |-> author]
OtherLog == [name |-> "Transfer"]
NoAsset == [name |-> "null"]

\* A raw body that is no JSON text, written in the shape of the bodies that
\* are: JSON.parse throws on it.
NotJson == [name |-> "not json"]
AlchemyGarbage == <<NotJson>>
QuickNodeGarbage == << <<NotJson>> >>

AlchemyParses(rawBody) == rawBody # AlchemyGarbage
QuickNodeParses(rawBody) == rawBody # QuickNodeGarbage

\* decodeAlchemyWebhookAssetData: the first log of the block, and only it
decodeAlchemyWebhookAssetData(logs) ==
    IF Len(logs) = 0 THEN NoAsset
    ELSE IF logs[1].name # "AssetAdded" THEN NoAsset
    ELSE logs[1]

\* decodeQuickNodeWebhookAssetData: the first AssetAdded among the logs of
\* the first matching receipt
decodeQuickNodeWebhookAssetData(receipts) ==
    IF Len(receipts) = 0 THEN NoAsset
    ELSE IF Len(receipts[1]) = 0 THEN NoAsset
    ELSE LET hits == { i \in DOMAIN receipts[1] : receipts[1][i].name = "AssetAdded" } IN
         IF hits = {} THEN NoAsset
         ELSE receipts[1][CHOOSE i \in hits : \A j \in hits : i <= j]

\* What a provider sends for the AssetAdded event of a minted cid: the
\* event alone, or after another log of the same transaction.
MintedCids == { c \in Cids : chain[c] # NoAuthor }

AlchemyBodies ==
    { <<AssetAdded(c, chain[c])>> : c \in MintedCids }
    \cup { <<OtherLog, AssetAdded(c, chain[c])>> : c \in MintedCids }

QuickNodeBodies ==
    { << <<AssetAdded(c, chain[c])>> >> : c \in MintedCids }
    \cup { << <<OtherLog, AssetAdded(c, chain[c])>> >> : c \in MintedCids }

\* Only the provider holds the key: a delivery is signed by it over a body
\* it made, carries a digest made without the key, or carries none.
AlchemySignatures(body) ==
    { Missing, HmacHex(AlchemySigningKey, body), HmacHex("guess", body) }

QuickNodeHeaders(body) ==
    { [nonce |-> <<"a">>, timestamp |-> <<"1">>,
       signature |-> HmacHex(QuickNodeSecurityToken, <<"a">> \o <<"1">> \o body)],
      [nonce |-> <<"a">>, timestamp |-> <<"1">>,
       signature |-> HmacHex("guess", <<"a">> \o <<"1">> \o body)],
      [nonce |-> Missing, timestamp |-> <<"1">>,
       signature |-> HmacHex(QuickNodeSecurityToken, <<"1">> \o body)] }

----------------------------------------------------------------------------
(* POST /webhook/alchemy/publish and POST /webhook/quicknode/publish *)

\* A webhook lookup that reports a missing record as an error.
WebhookLookupResponseNotFound(assetData, ok) ==
    IF assetData = NoAsset THEN Response(400, "No asset data found")
    ELSE IF getFileByCid(assetData.assetCid, ToLower(assetData.author), ok) = NullFile
    THEN Response(404, "No file found")
    ELSE Continue

\* From the decoded asset on, the two handlers are the same code: the
\* lookup by getFileByCid(assetData.assetCid, assetData.author.toLowerCase()).
WebhookLookupResponse(assetData, ok) ==
    IF assetData = NoAsset THEN Response(400, "No asset data found")
    ELSE IF getFileByCid(assetData.assetCid, ToLower(assetData.author), ok) = NullFile
    THEN Response(200, "File already marked as onchain")
    ELSE Continue

\* the header check, the signature check, JSON.parse (whose throw is caught
\* and answered 400), the decoding, the lookup
WebhookAlchemyResponse(body, signature, ok) ==
    IF signature = Missing THEN Response(401, "Missing signature header")
    ELSE IF ~validateAlchemySignature(body, signature, AlchemySigningKey)
    THEN Response(401, "Invalid signature")
    ELSE IF ~AlchemyParses(body) THEN Response(400, "Unexpected token")
    ELSE WebhookLookupResponse(decodeAlchemyWebhookAssetData(body), ok)

\* the same handler with JSON.parse before the header check
WebhookQuickNodeResponseParseFirst(body, h, ok) ==
    IF ~QuickNodeParses(body) THEN Response(400, "Unexpected token")
    ELSE IF h.nonce = Missing \/ h.timestamp = Missing \/ h.signature = Missing
    THEN Response(401, "Missing required headers")
    ELSE IF ~validateQuickNodeSignature(body, h.nonce, h.timestamp, h.signature,
                                        QuickNodeSecurityToken)
    THEN Response(401, "Invalid signature")
    ELSE WebhookLookupResponse(decodeQuickNodeWebhookAssetData(body), ok)

WebhookQuickNodeResponse(body, h, ok) ==
    IF h.nonce = Missing \/ h.timestamp = Missing \/ h.signature = Missing
    THEN Response(401, "Missing required headers")
    ELSE IF ~validateQuickNodeSignature(body, h.nonce, h.timestamp, h.signature,
                                        QuickNodeSecurityToken)
    THEN Response(401, "Invalid signature")
    ELSE IF ~QuickNodeParses(body) THEN Response(400, "Unexpected token")
    ELSE WebhookLookupResponse(decodeQuickNodeWebhookAssetData(body), ok)

\* the steps of a webhook handler up to its answer or its lookup's result
WebhookLookup(op, r, assetData, ok) ==
    /\ HasFreeSlot
    /\ IF r.code = 401 \/ assetData = NoAsset THEN UNCHANGED faults ELSE Call(ok)
    /\ IF r = Continue
       THEN reqs' = [reqs EXCEPT ![FreeSlot] =
                      [op |-> op, pc |-> "status",
                       fileId |-> getFileByCid(assetData.assetCid,
                                               ToLower(assetData.author), ok)]]
       ELSE UNCHANGED reqs
    /\ UNCHANGED <<files, groups, thumbnails, chain, now>>

WebhookAlchemy(body, signature, ok) ==
    WebhookLookup("alchemy", WebhookAlchemyResponse(body, signature, ok),
                  decodeAlchemyWebhookAssetData(body), ok)

WebhookQuickNode(body, h, ok) ==
    WebhookLookup("quicknode", WebhookQuickNodeResponse(body, h, ok),
                  decodeQuickNodeWebhookAssetData(body), ok)

\* files.private.update({id: file.id, keyvalues: {status: "onchain"}}); a
\* throw is caught and answered 400
WebhookStatusResponse(s, ok) ==
    IF ok /\ reqs[s].fileId \in FileIds THEN Response(200, "Webhook received successfully")
    ELSE Response(400, "Unknown error")

WebhookStatus(s, ok) ==
    /\ reqs[s].op \in {"alchemy", "quicknode"} /\ reqs[s].pc = "status"
    /\ Call(ok)
    /\ IF WebhookStatusResponse(s, ok).code = 200
       THEN files' = UpdateKeyvalues(files, reqs[s].fileId, [status |-> "onchain"])
       ELSE UNCHANGED files
    /\ reqs' = [reqs EXCEPT ![s] = Idle]
    /\ UNCHANGED <<groups, thumbnails, chain, now>>

----------------------------------------------------------------------------
(* The environment: on-chain mints *)

\* The marketplace contract mints a cid once and emits AssetAdded(cid, author).
Mint(cid, author) ==
    /\ chain[cid] = NoAuthor
    /\ Cardinality(MintedCids) < MaxMints
    /\ chain' = [chain EXCEPT ![cid] = author]
    /\ UNCHANGED <<files, groups, thumbnails, now, reqs, faults>>

----------------------------------------------------------------------------
(* The service: any request at any time, handlers interleaved at their    *)
(* awaits.                                                                 *)

Next ==
    \/ \E p \in Proofs, content \in Contents, ok \in BOOLEAN :
          CreateGroup(p, content, ok) /\ UNCHANGED history
    \/ \E s \in Slots, ok \in BOOLEAN : CreateUpload(s, ok) /\ UNCHANGED history
    \/ \E s \in Slots, ok \in BOOLEAN : CreateStatus(s, ok) /\ UNCHANGED history
    \/ \E p \in Proofs, cid \in Cids, content \in Contents, ok \in BOOLEAN :
          UpdateFile(p, cid, content, ok) /\ UNCHANGED history
    \/ \E s \in Slots, ok \in BOOLEAN : UpdateDelete(s, ok) /\ UNCHANGED history
    \/ \E s \in Slots, ok \in BOOLEAN : UpdateUpload(s, ok) /\ UNCHANGED history
    \/ \E p \in Proofs, cid \in Cids, hashtags \in HashtagInputs, thumbnail \in BOOLEAN,
          ok \in BOOLEAN : PublishFile(p, cid, hashtags, thumbnail, ok) /\ UNCHANGED history
    \/ \E s \in Slots, ok \in BOOLEAN : PublishTags(s, ok) /\ UNCHANGED history
    \/ \E s \in Slots, ok \in BOOLEAN : PublishThumbnail(s, ok) /\ UNCHANGED history
    \/ \E p \in Proofs, cid \in Cids, chainOk \in BOOLEAN, ok \in BOOLEAN :
          DeleteFile(p, cid, chainOk, ok) /\ UNCHANGED history
    \/ \E s \in Slots, ok \in BOOLEAN : DeleteDelete(s, ok) /\ UNCHANGED history
    \/ \E body \in AlchemyBodies \cup {AlchemyGarbage}, ok \in BOOLEAN :
          \E signature \in AlchemySignatures(body) :
             WebhookAlchemy(body, signature, ok) /\ UNCHANGED history
    \/ \E body \in QuickNodeBodies \cup {QuickNodeGarbage}, ok \in BOOLEAN :
          \E h \in QuickNodeHeaders(body) :
             WebhookQuickNode(body, h, ok) /\ UNCHANGED history
    \/ \E s \in Slots, ok \in BOOLEAN : WebhookStatus(s, ok) /\ UNCHANGED history
    \/ \E cid \in Cids, author \in Wallets : Mint(cid, author) /\ UNCHANGED history

Spec == Init /\ [][Next]_vars

----------------------------------------------------------------------------
(* Draft status lifecycle *)

StatusValues == {"pending", "onchain"}

\* the record with id i keeps its place and its fields over the step, or,
\* when a file before it was deleted, moves up one place
Kept(i) ==
    \/ i \in DOMAIN files' /\ files'[i] = files[i]
    \/ i - 1 \in DOMAIN files' /\ Len(files') < Len(files) /\ files'[i - 1] = files[i]

\* C1: every stored record's status is pending or onchain; the only status
\* change a step makes is pending -> onchain; a record that is onchain is
\* never modified or removed afterwards.
C1_StatusLifecycle ==
    [][ /\ \A i \in DOMAIN files' : files'[i].keyvalues.status \in StatusValues
        /\ Len(files') = Len(files) =>
              \A i \in DOMAIN files :
                 files'[i].keyvalues.status # files[i].keyvalues.status =>
                    /\ files[i].keyvalues.status = "pending"
                    /\ files'[i].keyvalues.status = "onchain"
        /\ \A i \in DOMAIN files :
              files[i].keyvalues.status = "onchain" => Kept(i) ]_vars

----------------------------------------------------------------------------
(* Webhook deliveries of one publication event, over either channel, from  *)
(* any store of up to two records.                                         *)

MaxDeliveries == 3

Owners == { ToLower(w) : w \in Wallets }

BaseRecords ==
    [cid : Cids, name : {"n1"}, group_id : {1},
     keyvalues : [owner : Owners, status : StatusValues]]

BaseStores ==
    {<<>>} \cup { <<r>> : r \in BaseRecords }
           \cup { <<r, q>> : r \in BaseRecords, q \in BaseRecords }

InitDeliveries ==
    /\ files \in BaseStores
    /\ base = files
    /\ groups = <<"n1">>
    /\ thumbnails = {}
    /\ chain \in { [c \in Cids |-> IF c = "Qm1" THEN a ELSE NoAuthor] : a \in Wallets }
    /\ now = StartTime
    /\ reqs = [s \in Slots |-> Idle]
    /\ faults = 0
    /\ applied = NoIntents
    /\ deliveries = NoDeliveries
    /\ probe = NoProbe

\* A delivery is counted once it is authentic and decodes to the event; it
\* is answered at its lookup (the no-op) or at its status write.
Delivery(r) ==
    /\ deliveries.begun < MaxDeliveries
    /\ deliveries' =
          [deliveries EXCEPT
             !.begun = @ + (IF r.code \in {0, 200} THEN 1 ELSE 0),
             !.answered = @ + (IF r.code = 200 THEN 1 ELSE 0)]
    /\ UNCHANGED <<applied, base, probe>>

DeliveryAnswered ==
    /\ deliveries' = [deliveries EXCEPT !.answered = @ + 1]
    /\ UNCHANGED <<applied, base, probe>>

NextDeliveries ==
    \/ \E body \in AlchemyBodies, ok \in BOOLEAN :
          \E signature \in AlchemySignatures(body) :
             /\ WebhookAlchemy(body, signature, ok)
             /\ Delivery(WebhookAlchemyResponse(body, signature, ok))
    \/ \E body \in QuickNodeBodies, ok \in BOOLEAN :
          \E h \in QuickNodeHeaders(body) :
             /\ WebhookQuickNode(body, h, ok)
             /\ Delivery(WebhookQuickNodeResponse(body, h, ok))
    \/ \E s \in Slots, ok \in BOOLEAN : WebhookStatus(s, ok) /\ DeliveryAnswered

SpecDeliveries == InitDeliveries /\ [][NextDeliveries]_vars

\* The store after one delivery of the event AssetAdded(cid, author), handled
\* alone and without a throw: the lookup, then the status write.
OneDelivery(store, cid, author) ==
    LET file == FileByCid(store, cid, ToLower(author)) IN
    IF file = NullFile THEN store
    ELSE UpdateKeyvalues(store, file, [status |-> "onchain"])

\* C2: after any number N >= 1 of deliveries of the same event, over either
\* channel and with their lookups and status writes interleaved, the store
\* is the store after exactly one delivery; at every point in between it is
\* the store before the deliveries or the store after one.
C2_DeliveriesConverge ==
    \A c \in MintedCids :
       /\ files \in {base, OneDelivery(base, c, chain[c])}
       /\ (deliveries.answered >= 1 /\ InFlight = {} /\ faults = 0)
             => files = OneDelivery(base, c, chain[c])

\* three deliveries have been answered and the record they name went onchain
C2_Witness ==
    /\ deliveries.answered = MaxDeliveries
    /\ InFlight = {}
    /\ faults = 0
    /\ files # base

\* C3: once one delivery of the event has been answered, a further delivery
\* leaves the store as it is, whatever the store was before the first:
\* record pending, already onchain, absent, or owned by another address.
C3_SecondDeliveryNoChange ==
    [][ (deliveries.answered >= 1 /\ faults = 0) => files' = files ]_vars

\* two deliveries answered one after the other, the first having set the
\* record onchain
C3_Witness ==
    /\ deliveries.begun = 2 /\ deliveries.answered = 2
    /\ faults = 0
    /\ \E c \in MintedCids : files = OneDelivery(base, c, chain[c]) /\ files # base

----------------------------------------------------------------------------
(* Webhook deliveries that find nothing to do *)

\* the headers a provider sends with a body it signed
AlchemySigned(body) == HmacHex(AlchemySigningKey, body)

QuickNodeSigned(body) ==
    [nonce |-> <<"a">>, timestamp |-> <<"1">>,
     signature |-> HmacHex(QuickNodeSecurityToken, <<"a">> \o <<"1">> \o body)]

PendingRecordOf(assetData) ==
    \E i \in FileIds :
       /\ files[i].cid = assetData.assetCid
       /\ files[i].keyvalues.owner = ToLower(assetData.author)
       /\ files[i].keyvalues.status = "pending"

OnchainRecordOf(assetData) ==
    \E i \in FileIds :
       /\ files[i].cid = assetData.assetCid
       /\ files[i].keyvalues.owner = ToLower(assetData.author)
       /\ files[i].keyvalues.status = "onchain"

NoOpSuccess == Response(200, "File already marked as onchain")

----------------------------------------------------------------------------
(* Ownership *)

\* what a request may change: the store and the handlers in flight
mutable == <<files, groups, thumbnails, reqs>>

Rejected(r) == r.code >= 400

\* the record the cid names is owned by another address than the claimed one
OwnerMismatch(p, cid) ==
    /\ ListByCid(files, cid) # {}
    /\ files[FirstOf(ListByCid(files, cid))].keyvalues.owner # ToLower(p.address)

----------------------------------------------------------------------------
(* Replays of signed update and delete intents *)

\* the signed intent a handler in flight carries: the primaryType, the
\* address and the nonce of its proof
Intent(primaryType, r) == <<primaryType, ToLower(r.address), r.nonce>>

\* the intent's mutation of the store has succeeded
Applies(intent) ==
    /\ applied' = IF intent \in applied.once
                  THEN [applied EXCEPT !.again = @ \cup {intent}]
                  ELSE [applied EXCEPT !.once = @ \cup {intent}]
    /\ UNCHANGED <<base, deliveries, probe>>

NextReplay ==
    \/ \E p \in Proofs, content \in Contents, ok \in BOOLEAN :
          CreateGroup(p, content, ok) /\ UNCHANGED history
    \/ \E s \in Slots, ok \in BOOLEAN : CreateUpload(s, ok) /\ UNCHANGED history
    \/ \E s \in Slots, ok \in BOOLEAN : CreateStatus(s, ok) /\ UNCHANGED history
    \/ \E p \in Proofs, cid \in Cids, content \in Contents, ok \in BOOLEAN :
          UpdateFile(p, cid, content, ok) /\ UNCHANGED history
    \/ \E s \in Slots, ok \in BOOLEAN : UpdateDelete(s, ok) /\ UNCHANGED history
    \/ \E s \in Slots, ok \in BOOLEAN :
          /\ UpdateUpload(s, ok)
          /\ IF UpdateUploadResponse(s, ok).code = 200
             THEN Applies(Intent("UpdateFile", reqs[s]))
             ELSE UNCHANGED history
    \/ \E p \in Proofs, cid \in Cids, chainOk \in BOOLEAN, ok \in BOOLEAN :
          DeleteFile(p, cid, chainOk, ok) /\ UNCHANGED history
    \/ \E s \in Slots, ok \in BOOLEAN :
          /\ DeleteDelete(s, ok)
          /\ IF files' # files
             THEN Applies(Intent("DeleteFile", reqs[s]))
             ELSE UNCHANGED history

SpecReplay == Init /\ [][NextReplay]_vars

\* C6: no signed update or delete intent has its mutation of the store
\* succeed more than once, however the requests are repeated or interleaved.
C6_AppliedAtMostOnce ==
    applied.again = {}

----------------------------------------------------------------------------
(* Authentication of a proof: the plain-message routine of login and the   *)
(* typed-data checks of the mutation endpoints, as functions of the proof  *)
(* and the clock.                                                          *)

LoginWindow == 60    \* auth.ts: if (timeDiff > 60)
SharedWindow == 10   \* shared.ts: if (timeDiff > 10 || timeDiff < -5)
SharedSkew == 5

MaxTicks == 2        \* times the clock advances
TickMs == 500        \* milliseconds of one advance

\* A login message: one with an "Issued At: ..." line, which new Date()
\* parses to milliseconds; one without such a line; the empty message.
Salt(issuedAt) == [kind |-> "dated", issuedAt |-> issuedAt]
UndatedSalt == [kind |-> "undated", issuedAt |-> 0]
EmptySalt == [kind |-> "empty", issuedAt |-> 0]
\* "Issued At: " followed by a text that is no date
GarbledSalt == [kind |-> "garbled", issuedAt |-> NaN]

\* authenticateSignature of edge-functions/auth.ts; an absent signature or
\* address is the empty string
authenticateSignature(salt, signer, address, t) ==
    IF salt = EmptySalt \/ address = "" \/ signer = "" THEN FALSE
    ELSE IF salt.kind = "undated" THEN FALSE
    ELSE IF salt.issuedAt # NaN /\ t - salt.issuedAt > LoginWindow * MsPerSec THEN FALSE
    ELSE ToLower(signer) = ToLower(address)

\* authenticateSignature of utils/shared.ts
sharedAuthenticateSignature(salt, signer, address, t) ==
    IF salt = EmptySalt \/ address = "" \/ signer = "" THEN FALSE
    ELSE IF salt.kind = "undated" THEN FALSE
    ELSE IF /\ salt.issuedAt # NaN
            /\ \/ t - salt.issuedAt > SharedWindow * MsPerSec
               \/ t - salt.issuedAt < - SharedSkew * MsPerSec THEN FALSE
    ELSE ToLower(signer) = ToLower(address)

\* the two checks every mutation endpoint makes on its typed-data proof
AuthenticateTyped(p, primaryType, t) ==
    verifyTypedData(p, primaryType) /\ ~TimestampExpired(p.timestamp, t)

\* a login that lets everyone in
LoginResponseOpen(salt, signer, address) == Response(200, "")

\* POST /auth/login
LoginResponse(salt, signer, address) ==
    IF ~authenticateSignature(salt, signer, address, now)
    THEN Response(401, "Authentication failed")
    ELSE Response(200, "")

\* seconds between the clock at StartTime and the time a proof names
Offsets ==
    { - (LoginWindow + 1), - LoginWindow, - (SharedWindow + 1), - SharedWindow, 0,
      SharedSkew, SharedSkew + 1, LoginWindow, LoginWindow + 1 }

LoginSalts ==
    { Salt(StartTime + d * MsPerSec) : d \in Offsets } \cup { UndatedSalt, EmptySalt, GarbledSalt }

TypedProofs ==
    { Proof(w, a, "n1", StartTime \div MsPerSec + d) :
         w \in Wallets, a \in ClaimedAddresses, d \in Offsets }
       \cup { Proof(w, a, "n1", NaN) : w \in Wallets, a \in ClaimedAddresses }

PrimaryTypes == {"CreateFile", "UpdateFile", "PublishFile", "DeleteFile"}

Tick ==
    /\ now < StartTime + MaxTicks * TickMs
    /\ now' = now + TickMs
    /\ UNCHANGED <<files, groups, thumbnails, chain, reqs, faults, history>>

Probed(routine, signer, address, dated, issuedAt, window, verdict) ==
    /\ probe' = [routine |-> routine, signer |-> signer, address |-> address,
                 dated |-> dated, issuedAt |-> issuedAt, at |-> now,
                 window |-> window, verdict |-> verdict]
    /\ UNCHANGED <<files, groups, thumbnails, chain, now, reqs, faults,
                   applied, base, deliveries>>

\* login through authenticateSignature of auth.ts
AuthLogin(salt, signer, address) ==
    Probed("login", signer, address, salt.kind = "dated", salt.issuedAt, LoginWindow,
           LoginResponse(salt, signer, address).code = 200)

\* login and presigned_url through authenticateSignature of shared.ts
AuthShared(salt, signer, address) ==
    Probed("shared", signer, address, salt.kind = "dated", salt.issuedAt, SharedWindow,
           sharedAuthenticateSignature(salt, signer, address, now))

\* the typed-data checks of create, update, publish and delete
AuthTyped(p, primaryType) ==
    Probed(primaryType, p.signer, p.address, p.timestamp # NaN,
           IF p.timestamp = NaN THEN NaN ELSE p.timestamp * MsPerSec, Window,
           AuthenticateTyped(p, primaryType, now))

NextAuth ==
    \/ Tick
    \/ \E salt \in LoginSalts, signer \in Wallets \cup {""},
          address \in ClaimedAddresses \cup {""} : AuthLogin(salt, signer, address)
    \/ \E salt \in LoginSalts, signer \in Wallets \cup {""},
          address \in ClaimedAddresses \cup {""} : AuthShared(salt, signer, address)
    \/ \E p \in TypedProofs, primaryType \in PrimaryTypes : AuthTyped(p, primaryType)

SpecAuth == Init /\ [][NextAuth]_vars

Abs(x) == IF x < 0 THEN - x ELSE x

\* the proof has all its fields and a timestamp that parses
WellFormed(pr) ==
    pr.signer # "" /\ pr.address # "" /\ pr.dated

\* C7: a well-formed proof is accepted if and only if its signer is the
\* claimed address, compared without regard to case, and its timestamp is
\* within the window of the clock, in the past or in the future; this for
\* the login routines and for the typed-data checks.
C7_AcceptedIffSignerAndWindow ==
    (probe # NoProbe /\ WellFormed(probe)) =>
       (probe.verdict <=>
          /\ ToLower(probe.signer) = ToLower(probe.address)
          /\ Abs(probe.at - probe.issuedAt) <= probe.window * MsPerSec)

----------------------------------------------------------------------------
(* Responses to stale proofs and to requests on records that are onchain   *)
(* or owned by another address                                             *)

\* the proof is signed by the claimed address and older than the window
Stale(p) ==
    verifyTypedData(p, "UpdateFile") /\ TimestampExpired(p.timestamp, now)

\* the record the cid names: the first of the files with that cid
Target(cid) == files[FirstOf(ListByCid(files, cid))]

\* no step of a handler of the request changes the store or leaves a
\* handler in flight
NoEffect(p, cid) ==
    /\ ~ENABLED (/\ \E content \in Contents, ok \in BOOLEAN : CreateGroup(p, content, ok)
                 /\ UNCHANGED history /\ mutable' # mutable)
    /\ ~ENABLED (/\ \E content \in Contents, ok \in BOOLEAN :
                      UpdateFile(p, cid, content, ok)
                 /\ UNCHANGED history /\ mutable' # mutable)
    /\ ~ENABLED (/\ \E ok \in BOOLEAN : DeleteFile(p, cid, TRUE, ok)
                 /\ UNCHANGED history /\ mutable' # mutable)
    /\ ~ENABLED (/\ \E hashtags \in HashtagInputs, ok \in BOOLEAN :
                      PublishFile(p, cid, hashtags, TRUE, ok)
                 /\ UNCHANGED history /\ mutable' # mutable)

\* C8: a proof older than the window is answered 401 and changes nothing,
\* though its signature is valid: by login, create, update, delete and
\* publish.
C8_StaleProofIs401 ==
    /\ \A salt \in LoginSalts :
          (salt.kind = "dated" /\ now - salt.issuedAt > LoginWindow * MsPerSec)
             => LoginResponse(salt, "0xAA", "0xAA").code = 401
    /\ \A p \in Proofs, cid \in Cids :
          Stale(p) =>
             /\ \A ok \in BOOLEAN :
                   /\ CreateGroupResponse(p, ok).code = 401
                   /\ UpdateFileResponse(p, cid, ok).code = 401
                   /\ DeleteFileResponse(p, cid, TRUE, ok).code = 401
                   /\ PublishFileResponse(p, cid, TRUE, ok).code = 401
             /\ NoEffect(p, cid)

\* C9: update and delete of a cid whose record is onchain are answered 400,
\* whatever the proof and whoever the caller.
C9_OnchainIsConflict ==
    \A p \in Proofs, cid \in Cids :
       (ListByCid(files, cid) # {} /\ Target(cid).keyvalues.status = "onchain") =>
          /\ UpdateFileResponse(p, cid, TRUE).code = 400
          /\ DeleteFileResponse(p, cid, TRUE, TRUE).code = 400

\* C10: for a fresh proof signed by the claimed address, update and delete
\* answer 404 when the cid has no record, 401 when its record is owned by
\* another address, and 400 when its record is the caller's and onchain.
C10_FailuresDistinguished ==
    \A p \in Proofs, cid \in Cids :
       AuthenticateTyped(p, "UpdateFile", now) =>
          /\ (ListByCid(files, cid) = {} /\ ~PublishedOnChain(cid)) =>
                /\ UpdateFileResponse(p, cid, TRUE).code = 404
                /\ DeleteFileResponse(p, cid, TRUE, TRUE).code = 404
          /\ OwnerMismatch(p, cid) =>
                /\ UpdateFileResponse(p, cid, TRUE).code = 401
                /\ DeleteFileResponse(p, cid, TRUE, TRUE).code = 401
          /\ (/\ ListByCid(files, cid) # {}
              /\ ~OwnerMismatch(p, cid)
              /\ Target(cid).keyvalues.status = "onchain") =>
                /\ UpdateFileResponse(p, cid, TRUE).code = 400
                /\ DeleteFileResponse(p, cid, TRUE, TRUE).code = 400

----------------------------------------------------------------------------
(* A nonce that is already the name of the record                          *)

\* the record the cid names already carries the nonce of the proof as its name
NameIsNonce(p, cid) ==
    /\ ListByCid(files, cid) # {}
    /\ Target(cid).name = p.nonce

\* the record the cid names is pending and owned by the claimed address
OwnPending(p, cid) ==
    /\ ListByCid(files, cid) # {}
    /\ ~OwnerMismatch(p, cid)
    /\ Target(cid).keyvalues.status = "pending"

\* C11: an update or delete request whose nonce equals the current name of
\* the record its cid names is rejected and no step of its handler changes
\* the store; when the proof is fresh and signed by the owner and the record
\* is pending, the answer is 400.
C11_SameNameIsConflict ==
    \A p \in Proofs, cid \in Cids :
       NameIsNonce(p, cid) =>
          /\ \A ok \in BOOLEAN :
                /\ Rejected(UpdateFileResponse(p, cid, ok))
                /\ Rejected(DeleteFileResponse(p, cid, TRUE, ok))
          /\ (AuthenticateTyped(p, "UpdateFile", now) /\ OwnPending(p, cid)) =>
                /\ UpdateFileResponse(p, cid, TRUE) = Response(400, "File already updated")
                /\ DeleteFileResponse(p, cid, TRUE, TRUE).code = 400
          /\ ~ENABLED (/\ \E content \in Contents, ok \in BOOLEAN :
                            UpdateFile(p, cid, content, ok)
                       /\ UNCHANGED history
                       /\ mutable' # mutable)
          /\ ~ENABLED (/\ \E chainOk \in BOOLEAN, ok \in BOOLEAN :
                            DeleteFile(p, cid, chainOk, ok)
                       /\ UNCHANGED history
                       /\ mutable' # mutable)

\* the owner's fresh proof carries the name of their pending, unminted
\* record while a handler could start: both requests are answered 400
C11_Witness ==
    \E p \in Proofs, cid \in Cids :
       /\ NameIsNonce(p, cid)
       /\ AuthenticateTyped(p, "UpdateFile", now)
       /\ OwnPending(p, cid)
       /\ ~PublishedOnChain(cid)
       /\ HasFreeSlot /\ RoomForUpload
       /\ UpdateFileResponse(p, cid, TRUE).code = 400
       /\ DeleteFileResponse(p, cid, TRUE, TRUE) = Response(400, "File already deleted")

----------------------------------------------------------------------------
(* The same update request sent again                                      *)

\* C12: when an update has succeeded, the same request sent again at once
\* (the same proof, the same cid in the query) is answered 400.
C12_SecondUpdateIsConflict ==
    [][\A s \in Slots, p \in Proofs, cid \in Cids :
          (/\ reqs[s].op = "update" /\ reqs[s].pc = "upload"
           /\ UpdateUpload(s, TRUE)
           /\ cid = reqs[s].cid
           /\ p.address = reqs[s].address /\ p.nonce = reqs[s].nonce
           /\ AuthenticateTyped(p, "UpdateFile", now))
             => (UpdateFileResponse(p, cid, TRUE).code = 400)']_vars

----------------------------------------------------------------------------
(* Malformed proofs                                                        *)

\* C13: a proof that lacks its salt, address or signature, or whose
\* timestamp does not parse, is never accepted: by the login routines and
\* by the typed-data checks.
C13_MalformedNeverAccepted ==
    (probe # NoProbe /\ ~WellFormed(probe)) => ~probe.verdict

----------------------------------------------------------------------------
(* Session tokens (hono/jwt, HS256) and the reads they protect             *)

JwtSecret == "SECRET_KEY"

\* 2 hours, in seconds
TokenLife == 2 * 60 * 60

\* a property a payload, or a result, does not have
Absent == "absent"

\* a token is its payload and the digest of the payload under a secret
sign(payload, secret) ==
    [payload |-> payload, signature |-> HmacHex(secret, payload)]

\* a text that is not three dot-separated base64 parts
MalformedToken ==
    [payload |-> [address |-> Absent, iat |-> 0, exp |-> 0], signature |-> Missing]

\* a token that lives a day
generateJWTDay(address, t) ==
    sign([address |-> ToLower(address), iat |-> t \div MsPerSec,
          exp |-> t \div MsPerSec + 12 * TokenLife], JwtSecret)

generateJWT(address, t) ==
    sign([address |-> ToLower(address), iat |-> t \div MsPerSec,
          exp |-> t \div MsPerSec + TokenLife], JwtSecret)

\* verification that does not look at exp
verifyNoExpiry(token, secret, t) ==
    /\ token # MalformedToken
    /\ t \div MsPerSec >= token.payload.iat
    /\ token.signature = HmacHex(secret, token.payload)

\* verify of hono/jwt does not throw: the token parses, it is not expired
\* (exp <= now is), not issued in the future, and its signature matches
verify(token, secret, t) ==
    /\ token # MalformedToken
    /\ t \div MsPerSec < token.payload.exp
    /\ t \div MsPerSec >= token.payload.iat
    /\ token.signature = HmacHex(secret, token.payload)

Null == [address |-> Absent]

verifyJWT(token, t) ==
    IF ~verify(token, JwtSecret, t) THEN Null
    ELSE IF token.payload.address = Absent THEN Null
    ELSE [address |-> token.payload.address]

\* pinata.files.private.list().keyvalues({owner, status: "pending"})
PendingFilesOf(requestedOwner) ==
    { i \in FileIds : /\ files[i].keyvalues.owner = requestedOwner
                      /\ files[i].keyvalues.status = "pending" }

\* GET /pendingFilesByOwner: bearer is whether the Authorization header is
\* there and starts with "Bearer "; an absent owner parameter is ""
PendingFilesByOwnerResponse(bearer, token, owner, ok) ==
    LET requestedOwner == ToLower(owner) IN
    IF ~bearer THEN Response(401, "JWT token required")
    ELSE IF verifyJWT(token, now) = Null THEN Response(401, "Invalid or expired token")
    ELSE IF requestedOwner = "" THEN Response(400, "Owner parameter is required")
    ELSE IF ~ok THEN Response(500, "Internal Server Error")
    ELSE Response(200, "")

\* the instants of a session, in milliseconds: a token is issued at the
\* start or an hour and a second later, and presented up to its expiry
\* and beyond
AnHourAndASecond == 60 * 60 + 1

IssueInstants == { StartTime, StartTime + AnHourAndASecond * MsPerSec }

SessionInstants ==
    IssueInstants \cup
    { StartTime + d : d \in { TokenLife * MsPerSec - 1, TokenLife * MsPerSec,
                              (TokenLife + 1) * MsPerSec,
                              (AnHourAndASecond + TokenLife) * MsPerSec } }

\* the tokens the server has issued so far
IssuedTokens ==
    { generateJWT(a, t) : a \in ClaimedAddresses,
                          t \in { i \in IssueInstants : i <= now } }

\* what a holder of an issued token, but not of the secret, can make of it:
\* another address or a later expiry under the old digest, a digest under
\* a guessed secret
Counterfeits(token) ==
    { [token EXCEPT !.payload.address = o] : o \in Owners \ {token.payload.address} }
       \cup { [token EXCEPT !.payload.exp = @ + TokenLife] }
       \cup { sign(token.payload, "guess") }

\* a payload without an address, signed with the secret
Unaddressed(token) == sign([token.payload EXCEPT !.address = Absent], JwtSecret)

PresentedTokens ==
    IssuedTokens \cup UNION { Counterfeits(token) : token \in IssuedTokens }
                 \cup { Unaddressed(token) : token \in IssuedTokens }
                 \cup { MalformedToken }

OwnerParams == Wallets \cup Owners \cup {""}

SessionStores ==
    {<<>>} \cup { <<r>> : r \in { b \in BaseRecords : b.cid = "Qm1" } }

InitSession ==
    /\ files \in SessionStores
    /\ groups = <<"n1">>
    /\ thumbnails = {}
    /\ chain = [c \in Cids |-> IF c = "Qm1" THEN "0xBB" ELSE NoAuthor]
    /\ now = StartTime
    /\ reqs = [s \in Slots |-> Idle]
    /\ faults = 0
    /\ applied = NoIntents
    /\ base = <<>>
    /\ deliveries = NoDeliveries
    /\ probe = NoProbe

SessionTick ==
    /\ \E t \in SessionInstants : t > now /\ now' = t
    /\ UNCHANGED <<files, groups, thumbnails, chain, reqs, faults, history>>

Presented(routine, bearer, token, owner, code) ==
    /\ probe' = [routine |-> routine, bearer |-> bearer, token |-> token,
                 owner |-> owner, at |-> now, code |-> code]
    /\ UNCHANGED <<files, groups, thumbnails, chain, now, reqs, faults,
                   applied, base, deliveries>>

\* POST /auth/login with a proof just signed: the answer carries the token
SessionLogin(signer, address) ==
    /\ now \in IssueInstants
    /\ LoginResponse(Salt(now), signer, address).code = 200
    /\ Presented("login", FALSE, generateJWT(address, now), address, 200)

PendingFilesByOwner(bearer, token, owner, ok) ==
    Presented("pendingFilesByOwner", bearer, token, owner,
              PendingFilesByOwnerResponse(bearer, token, owner, ok).code)

\* GET /fileByCid: the token, getFileByCid for the token's address, then
\* pinata.gateways.private.get(file.cid), awaited outside any try; the text
\* of a 200 is the content, named by its cid
FileByCidResponse(bearer, token, cid, ok, gatewayOk) ==
    LET jwtPayload == verifyJWT(token, now) IN
    IF ~bearer THEN Response(401, "JWT token required")
    ELSE IF jwtPayload = Null THEN Response(401, "Invalid or expired token")
    ELSE IF getFileByCid(cid, ToLower(jwtPayload.address), ok) = NullFile
    THEN Response(404, "No file found")
    ELSE IF ~gatewayOk THEN Response(500, "Internal Server Error")
    ELSE Response(200, files[getFileByCid(cid, ToLower(jwtPayload.address), ok)].cid)

\* the query parameter of the request is kept in the field owner
FileByCidGet(bearer, token, cid, ok, gatewayOk) ==
    Presented("fileByCid", bearer, token, cid,
              FileByCidResponse(bearer, token, cid, ok, gatewayOk).code)

\* GET /fileByPostId: the token, the user and postId parameters (absent is
\* ""), balanceOf(requestedUser, postId) and getPostInfo(postId) read from
\* the chain, then the content of the post's cid.  A post is named by its
\* cid; balance is what balanceOf returns.
FileByPostIdResponse(bearer, token, user, postId, balance, ok) ==
    LET requestedUser == ToLower(user) IN
    IF ~bearer THEN Response(401, "JWT token required")
    ELSE IF verifyJWT(token, now) = Null THEN Response(401, "Invalid or expired token")
    ELSE IF requestedUser = "" THEN Response(400, "user parameter is required")
    ELSE IF postId = "" THEN Response(400, "Post ID parameter is required")
    ELSE IF ~ok THEN Response(500, "Failed to fetch file")
    ELSE IF ToLower(chain[postId]) # requestedUser /\ balance = 0
    THEN Response(404, "Unauthorized: Do not have post")
    ELSE Response(200, postId)

FileByPostId(bearer, token, user, postId, balance, ok) ==
    Presented("fileByPostId", bearer, token, user,
              FileByPostIdResponse(bearer, token, user, postId, balance, ok).code)

NextSession ==
    \/ SessionTick
    \/ \E signer \in Wallets, address \in ClaimedAddresses : SessionLogin(signer, address)
    \/ \E bearer \in BOOLEAN, token \in PresentedTokens, owner \in OwnerParams,
          ok \in BOOLEAN : PendingFilesByOwner(bearer, token, owner, ok)

SpecSession == InitSession /\ [][NextSession]_vars

\* C14: a token issued at t carries the lowercased address and expires
\* TokenLife seconds after t (in whole seconds); verifyJWT returns that
\* address at every time before the expiry and null from the expiry on;
\* it returns null for a token whose payload was altered, whose digest was
\* made without the secret, that does not parse, or whose signed payload
\* has no address.
C14_TokenValidUntilExpiry ==
    /\ \A a \in ClaimedAddresses, t \in IssueInstants :
          t <= now =>
             LET token == generateJWT(a, t) IN
             /\ token.payload.address = ToLower(a)
             /\ token.payload.exp = t \div MsPerSec + TokenLife
             /\ (now \div MsPerSec < token.payload.exp)
                   => verifyJWT(token, now) = [address |-> ToLower(a)]
             /\ (now \div MsPerSec >= token.payload.exp)
                   => verifyJWT(token, now) = Null
             /\ \A bad \in Counterfeits(token) \cup {Unaddressed(token)} :
                   verifyJWT(bad, now) = Null
    /\ verifyJWT(MalformedToken, now) = Null

\* a token was just accepted by the endpoint at an instant when an older
\* token has expired and is refused
C14_Witness ==
    /\ probe.routine = "pendingFilesByOwner"
    /\ probe.at = now
    /\ probe.bearer /\ probe.token \in IssuedTokens /\ probe.code = 200
    /\ \E old \in IssuedTokens :
          /\ old.payload.address = probe.token.payload.address
          /\ verifyJWT(old, now) = Null

\* C15 as stated: a token presented to GET /pendingFilesByOwner an hour
\* and a second after it was issued is answered 401, whatever the letter
\* case of the owner parameter.
C15_RejectedAfterAnHour ==
    \A token \in IssuedTokens, owner \in OwnerParams :
       (now \div MsPerSec - token.payload.iat = AnHourAndASecond)
          => PendingFilesByOwnerResponse(TRUE, token, owner, TRUE).code = 401

\* C15: a token presented to GET /pendingFilesByOwner more than TokenLife
\* seconds after it was issued is answered 401 "Invalid or expired token",
\* whatever the letter case of the owner parameter; an hour and a second
\* after it was issued it is still accepted for its own address.
C15_RejectedAfterTwoHours ==
    \A token \in IssuedTokens, owner \in OwnerParams, ok \in BOOLEAN :
       /\ (now \div MsPerSec - token.payload.iat > TokenLife)
             => PendingFilesByOwnerResponse(TRUE, token, owner, ok) =
                   Response(401, "Invalid or expired token")
       /\ (/\ now \div MsPerSec - token.payload.iat = AnHourAndASecond
           /\ ToLower(owner) = token.payload.address)
             => PendingFilesByOwnerResponse(TRUE, token, owner, TRUE).code = 200

\* the endpoint has just refused a token a second after its two hours, the
\* owner parameter being the token's address in capitals
C15_Witness ==
    /\ probe.routine = "pendingFilesByOwner"
    /\ probe.bearer /\ probe.token \in IssuedTokens
    /\ probe.at \div MsPerSec - probe.token.payload.iat = TokenLife + 1
    /\ probe.owner \in Wallets /\ ToLower(probe.owner) = probe.token.payload.address
    /\ probe.owner # probe.token.payload.address
    /\ probe.code = 401

\* C16: GET /pendingFilesByOwner answers 200 only when the owner parameter,
\* lowercased, is the address of the token, and then lists records of that
\* address only; a valid token asking for another owner is answered 403.
C16_OwnerIsTokenIdentity ==
    \A token \in IssuedTokens, owner \in OwnerParams :
       verifyJWT(token, now) # Null =>
          LET r == PendingFilesByOwnerResponse(TRUE, token, owner, TRUE) IN
          /\ r.code = 200 =>
                /\ ToLower(owner) = token.payload.address
                /\ \A i \in PendingFilesOf(ToLower(owner)) :
                      files[i].keyvalues.owner = token.payload.address
          /\ (owner # "" /\ ToLower(owner) # token.payload.address) => r.code = 403

----------------------------------------------------------------------------
(* Deliveries that are not authentic                                       *)

\* a record a delivery of the mint of cid would mark onchain
Markable(cid) ==
    /\ cid \in MintedCids
    /\ getFileByCid(cid, ToLower(chain[cid]), TRUE) # NullFile

\* signatures that are not the digest of the body under the signing key:
\* none, one made with another key, one made with the key for another body
AlchemyUnsigned(body) ==
    { Missing, HmacHex("guess", body), HmacHex(AlchemySigningKey, <<OtherLog>>) }

\* headers whose signature is none or is not the digest of nonce, timestamp
\* and body under the security token
QuickNodeUnsigned(body) ==
    LET signed == QuickNodeSigned(body) IN
    { [signed EXCEPT !.signature = Missing],
      [signed EXCEPT !.signature = HmacHex("guess", signed.nonce \o signed.timestamp \o body)],
      [signed EXCEPT !.signature =
          HmacHex(QuickNodeSecurityToken, signed.nonce \o signed.timestamp \o << <<OtherLog>> >>)],
      [signed EXCEPT !.nonce = <<"b">>] }

\* C17: a delivery whose signature is missing or is not the digest of what
\* was received is answered 401 on both channels, also when its body is no
\* JSON or holds no event, and no step of the handler changes the store or
\* leaves a handler in flight.
C17_UnsignedIs401 ==
    /\ \A body \in AlchemyBodies \cup {AlchemyGarbage, <<>>} :
          \A signature \in AlchemyUnsigned(body) :
             /\ \A ok \in BOOLEAN : WebhookAlchemyResponse(body, signature, ok).code = 401
             /\ ~ENABLED (/\ \E ok \in BOOLEAN : WebhookAlchemy(body, signature, ok)
                          /\ UNCHANGED history
                          /\ mutable' # mutable)
    /\ \A body \in QuickNodeBodies \cup {QuickNodeGarbage, <<>>} :
          \A h \in QuickNodeUnsigned(body) :
             /\ \A ok \in BOOLEAN : WebhookQuickNodeResponse(body, h, ok).code = 401
             /\ ~ENABLED (/\ \E ok \in BOOLEAN : WebhookQuickNode(body, h, ok)
                          /\ UNCHANGED history
                          /\ mutable' # mutable)

\* a pending record whose mint a signed delivery would record, a handler
\* free to start, and the same delivery with a guessed signature refused
C17_Witness ==
    \E c \in Cids :
       /\ Markable(c)
       /\ HasFreeSlot
       /\ WebhookAlchemyResponse(<<AssetAdded(c, chain[c])>>,
                                 AlchemySigned(<<AssetAdded(c, chain[c])>>), TRUE) = Continue
       /\ WebhookAlchemyResponse(<<AssetAdded(c, chain[c])>>,
             HmacHex("guess", <<AssetAdded(c, chain[c])>>), TRUE).code = 401

\* the headers of a signed delivery with one or more of them absent
QuickNodeHeadless(body) ==
    LET signed == QuickNodeSigned(body) IN
    { [nonce |-> IF n THEN signed.nonce ELSE Missing,
       timestamp |-> IF t THEN signed.timestamp ELSE Missing,
       signature |-> IF g THEN signed.signature ELSE Missing] :
         n \in BOOLEAN, t \in BOOLEAN, g \in BOOLEAN } \ {signed}

\* C18: a delivery on the QuickNode channel that lacks the nonce, the
\* timestamp or the signature header is answered 401, whatever its body:
\* an event, no event, or no JSON.
C18_MissingHeaderIs401 ==
    \A body \in QuickNodeBodies \cup {QuickNodeGarbage, <<>>} :
       \A h \in QuickNodeHeadless(body), ok \in BOOLEAN :
          WebhookQuickNodeResponse(body, h, ok) = Response(401, "Missing required headers")

\* a pending record whose mint a signed delivery would record, while the
\* same delivery without its timestamp header is refused, and so is a body
\* of no JSON that with all its headers is answered 400
C18_Witness ==
    \E c \in Cids :
       LET body == << <<AssetAdded(c, chain[c])>> >> IN
       /\ Markable(c)
       /\ HasFreeSlot
       /\ WebhookQuickNodeResponse(body, QuickNodeSigned(body), TRUE) = Continue
       /\ WebhookQuickNodeResponse(body, [QuickNodeSigned(body) EXCEPT !.timestamp = Missing],
                                   TRUE).code = 401
       /\ WebhookQuickNodeResponse(QuickNodeGarbage, QuickNodeSigned(QuickNodeGarbage),
                                   TRUE).code = 400
       /\ WebhookQuickNodeResponse(QuickNodeGarbage,
             [QuickNodeSigned(QuickNodeGarbage) EXCEPT !.nonce = Missing], TRUE).code = 401

----------------------------------------------------------------------------
(* What the decoders find                                                  *)

\* C19: for the AssetAdded event of a mint, each decoder returns the event
\* from every envelope that holds it: alone, after another log, and (for
\* QuickNode) in a receipt after another receipt; and returns no event from
\* an envelope that holds none.
C19_DecodersFindTheEvent ==
    /\ \A c \in MintedCids :
          LET event == AssetAdded(c, chain[c]) IN
          /\ \A logs \in { <<event>>, <<OtherLog, event>>, <<event, OtherLog>> } :
                decodeAlchemyWebhookAssetData(logs) = event
          /\ \A receipts \in { << <<event>> >>, << <<OtherLog, event>> >>,
                                << <<OtherLog>>, <<event>> >> } :
                decodeQuickNodeWebhookAssetData(receipts) = event
    /\ \A logs \in { <<>>, <<OtherLog>>, <<OtherLog, OtherLog>> } :
          /\ decodeAlchemyWebhookAssetData(logs) = NoAsset
          /\ decodeQuickNodeWebhookAssetData(<<logs>>) = NoAsset
    /\ decodeQuickNodeWebhookAssetData(<<>>) = NoAsset

----------------------------------------------------------------------------
(* The owner of a record                                                   *)

\* C20: every record's owner is the lowercased address of a wallet, and no
\* step that leaves the records in their places changes the owner of one.
C20_OwnerNeverChanges ==
    [][ /\ \A i \in DOMAIN files' : files'[i].keyvalues.owner \in Owners
        /\ Len(files') = Len(files) =>
              \A i \in DOMAIN files :
                 files'[i].keyvalues.owner = files[i].keyvalues.owner ]_vars

----------------------------------------------------------------------------
(* What publish leaves alone                                               *)

\* C21: the keyvalue update of POST /publish/file leaves the status, the
\* owner, the name and the group of its record as they were, whatever the
\* hashtags, and changes no other record.
C21_PublishKeepsRecord ==
    [][\A s \in Slots, ok \in BOOLEAN :
          (/\ reqs[s].op = "publish" /\ reqs[s].pc = "tags"
           /\ PublishTags(s, ok))
             => /\ Len(files') = Len(files)
                /\ \A i \in DOMAIN files :
                      /\ files'[i].keyvalues.status = files[i].keyvalues.status
                      /\ files'[i].keyvalues.owner = files[i].keyvalues.owner
                      /\ files'[i].name = files[i].name
                      /\ files'[i].group_id = files[i].group_id
                      /\ files'[i].cid = files[i].cid
                      /\ i # reqs[s].fileId => files'[i] = files[i] ]_vars

----------------------------------------------------------------------------
(* What a successful update leaves in the store                            *)

\* the record an update uploads
UpdatedRecord(r) ==
    [cid |-> CidOf(r.content), name |-> r.nonce, group_id |-> r.group,
     keyvalues |-> [owner |-> ToLower(r.address), status |-> "pending"]]

\* C22: when an update answers 200, the record it looked up is no longer in
\* the store, the store has gained the one record of the same group, of the
\* caller's address, pending and named after the nonce, and that record is
\* the only one of its group.
C22_UpdateReplaces ==
    [][\A s \in Slots :
          (/\ reqs[s].op = "update" /\ reqs[s].pc = "upload"
           /\ UpdateUpload(s, TRUE))
             => /\ reqs[s].fileId = Gone
                /\ files' = Append(files, UpdatedRecord(reqs[s]))
                /\ Cardinality({ i \in DOMAIN files' :
                                   files'[i].group_id = reqs[s].group }) = 1 ]_vars

----------------------------------------------------------------------------
(* Creation of drafts, one after another or at once                        *)

MaxCreates == 2

NextCreate ==
    \/ \E p \in Proofs, content \in Contents, ok \in BOOLEAN :
          CreateGroupIn(MaxCreates, p, content, ok) /\ UNCHANGED history
    \/ \E s \in Slots, ok \in BOOLEAN :
          /\ CreateUpload(s, ok)
          /\ IF CreateUploadResponse(s, ok) = Continue
             THEN Applies(Intent("CreateFile", reqs[s]))
             ELSE UNCHANGED history
    \/ \E s \in Slots, ok \in BOOLEAN : CreateStatus(s, ok) /\ UNCHANGED history

SpecCreate == Init /\ [][NextCreate]_vars

\* the record a create uploads
CreatedRecord(r) ==
    [cid |-> CidOf(r.content), name |-> r.nonce, group_id |-> r.group,
     keyvalues |-> [owner |-> ToLower(r.address), status |-> "pending"]]

\* C23: a create whose proof does not authenticate is answered 401 and adds
\* no group and no record; a create adds at most the one group named after
\* its nonce, then the one record of that group, of which it is the first,
\* pending, owned by the lowercased address and named after the nonce, and
\* last sets the status of that record to pending; no step of it changes
\* another record.
C23_CreateAddsOneRecord ==
    [][ /\ \A p \in Proofs, content \in Contents, ok \in BOOLEAN :
              CreateGroupIn(MaxCreates, p, content, ok) =>
                 /\ files' = files
                 /\ groups' = groups \/ groups' = Append(groups, p.nonce)
                 /\ ~AuthenticateTyped(p, "CreateFile", now) =>
                       /\ CreateGroupResponse(p, ok).code = 401
                       /\ mutable' = mutable
        /\ \A s \in Slots :
              (/\ reqs[s].op = "create" /\ reqs[s].pc = "upload"
               /\ CreateUpload(s, TRUE)) =>
                 /\ files' = Append(files, CreatedRecord(reqs[s]))
                 /\ groups[reqs[s].group] = reqs[s].nonce
                 /\ \A i \in DOMAIN files : files[i].group_id # reqs[s].group
        /\ \A s \in Slots, ok \in BOOLEAN :
              (/\ reqs[s].op = "create" /\ reqs[s].pc = "status"
               /\ CreateStatus(s, ok)) =>
                 /\ Len(files') = Len(files)
                 /\ \A i \in DOMAIN files :
                       files'[i] = IF i = reqs[s].fileId /\ ok
                                   THEN [files[i] EXCEPT !.keyvalues.status = "pending"]
                                   ELSE files[i] ]_vars

\* two creates have answered 200: the second added its record and its group
\* beside the record and the group of the first
C23_Witness ==
    /\ Len(files) = 2 /\ Len(groups) = 2
    /\ InFlight = {}
    /\ faults = 0
    /\ files[1].group_id = 1 /\ files[2].group_id = 2
    /\ files[1].keyvalues.owner # files[2].keyvalues.owner

\* C29: no create proof adds a record twice, and no two groups carry the
\* same name.
C29_CreateProofUsedOnce ==
    /\ \A intent \in applied.again : intent[1] # "CreateFile"
    /\ \A i \in DOMAIN groups, j \in DOMAIN groups : groups[i] = groups[j] => i = j

----------------------------------------------------------------------------
(* What a successful delete removes                                        *)

\* C24: when a delete answers 200, the record it looked up is in the store,
\* pending and owned by the address of the proof, and the step removes that
\* record and leaves every other as it was.
C24_DeleteRemovesOwnPending ==
    [][\A s \in Slots, ok \in BOOLEAN :
          (/\ reqs[s].op = "delete" /\ reqs[s].pc = "delete"
           /\ DeleteDelete(s, ok)
           /\ DeleteDeleteResponse(s, ok).code = 200)
             => /\ reqs[s].fileId \in FileIds
                /\ files[reqs[s].fileId].keyvalues.status = "pending"
                /\ files[reqs[s].fileId].keyvalues.owner = ToLower(reqs[s].address)
                /\ files' = Remove(reqs[s].fileId) ]_vars

----------------------------------------------------------------------------
(* Failures inside an update                                               *)

\* C25: when the upload of an update throws the answer is 500 and the store
\* is left without the old record and without a new one; when the delete of
\* the old record fails the handler ends there and uploads nothing.
C25_UpdateFailures ==
    [][\A s \in Slots :
          /\ (/\ reqs[s].op = "update" /\ reqs[s].pc = "upload"
               /\ reqs[s].fileId = Gone
               /\ UpdateUpload(s, FALSE))
                 => /\ UpdateUploadResponse(s, FALSE).code = 500
                    /\ files' = files
                    /\ reqs'[s] = Idle
          /\ (/\ reqs[s].op = "update" /\ reqs[s].pc = "delete"
               /\ reqs[s].fileId \in FileIds
               /\ UpdateDelete(s, FALSE))
                 => /\ files' = files
                    /\ reqs'[s] = Idle ]_vars

----------------------------------------------------------------------------
(* Authentication before every other check                                 *)

\* C26: a create, update, delete or publish request whose proof is forged
\* or stale is answered 401, whatever the cid it names, the record of that
\* cid and the state of the chain.
C26_AuthenticatedFirst ==
    \A p \in Proofs, cid \in Cids :
       ~AuthenticateTyped(p, "UpdateFile", now) =>
          \A ok \in BOOLEAN :
             /\ CreateGroupResponse(p, ok).code = 401
             /\ UpdateFileResponse(p, cid, ok).code = 401
             /\ DeleteFileResponse(p, cid, TRUE, ok).code = 401
             /\ PublishFileResponse(p, cid, TRUE, ok).code = 401

----------------------------------------------------------------------------
(* Failures of the store and of the chain                                  *)

\* what the framework answers when a handler lets an exception out
Uncaught == Response(500, "Internal Server Error")

\* the handler's own answer to a failure: 500 with its error text
Caught(r) == r.code = 500 /\ r # Uncaught

\* C27: for an authentic request, a throw of the first store or chain call
\* of create, update, delete and publish, and of each later call, is
\* answered by the handler itself with 500.
C27_FailuresAre500 ==
    /\ \A p \in Proofs, cid \in Cids :
          AuthenticateTyped(p, "UpdateFile", now) =>
             /\ Caught(CreateGroupResponse(p, FALSE))
             /\ Caught(UpdateFileResponse(p, cid, FALSE))
             /\ Caught(DeleteFileResponse(p, cid, FALSE, TRUE))
             /\ ~PublishedOnChain(cid) => Caught(DeleteFileResponse(p, cid, TRUE, FALSE))
             /\ Caught(PublishFileResponse(p, cid, TRUE, FALSE))
    /\ \A s \in Slots :
          /\ Caught(CreateUploadResponse(s, FALSE))
          /\ Caught(CreateStatusResponse(s, FALSE))
          /\ Caught(UpdateUploadResponse(s, FALSE))
          /\ Caught(DeleteDeleteResponse(s, FALSE))
          /\ Caught(PublishTagsResponse(s, FALSE))
          /\ Caught(PublishThumbnailResponse(s, FALSE))

----------------------------------------------------------------------------
(* What login answers                                                      *)

\* POST /auth/login of the handler that uses authenticateSignature of
\* utils/shared.ts
SharedLoginResponse(salt, signer, address) ==
    IF ~sharedAuthenticateSignature(salt, signer, address, now)
    THEN Response(401, "Authentication failed")
    ELSE Response(200, "")

\* the body of login's answer: {token, address, expiresIn} with 200, an
\* error and no token otherwise
LoginBody(r, address) ==
    IF r.code = 200
    THEN [token |-> {generateJWT(address, now)}, address |-> ToLower(address),
          expiresIn |-> "2h"]
    ELSE [token |-> {}, address |-> "", expiresIn |-> ""]

\* the proof lacks a field or a date, is signed by another wallet than the
\* claimed address, or is older than the window
Unauthentic(salt, signer, address, window) ==
    \/ signer = "" \/ address = ""
    \/ salt \in {EmptySalt, UndatedSalt}
    \/ ToLower(signer) # ToLower(address)
    \/ salt.kind = "dated" /\ now - salt.issuedAt > window * MsPerSec

LoginAnswers(r, accepted, body, address) ==
    /\ r.code \in {200, 401}
    /\ r.code = 200 <=> accepted
    /\ r.code = 401 => body.token = {}
    /\ r.code = 200 =>
          /\ body.address = ToLower(address)
          /\ body.expiresIn = "2h"
          /\ \E token \in body.token :
                /\ body.token = {token}
                /\ token.payload.exp - token.payload.iat = TokenLife
                /\ verifyJWT(token, now) = [address |-> ToLower(address)]

----------------------------------------------------------------------------
(* Updates and the chain                                                   *)

\* C30: an update of a cid that is minted on chain is rejected, and no
\* update removes a record whose cid is minted on chain, whether or not a
\* webhook has yet set its status to onchain.
C30_UpdateSparesMinted ==
    [][ /\ \A p \in Proofs, cid \in Cids :
              PublishedOnChain(cid) => Rejected(UpdateFileResponse(p, cid, TRUE))
        /\ \A s \in Slots :
              (/\ reqs[s].op = "update" /\ reqs[s].pc = "delete"
               /\ reqs[s].fileId \in FileIds
               /\ UpdateDelete(s, TRUE))
                 => ~PublishedOnChain(files[reqs[s].fileId].cid) ]_vars

----------------------------------------------------------------------------
(* The reads a token protects                                              *)

NextReads ==
    \/ SessionTick
    \/ \E bearer \in BOOLEAN, token \in IssuedTokens \cup {MalformedToken}, cid \in Cids,
          ok \in BOOLEAN, gatewayOk \in BOOLEAN :
             FileByCidGet(bearer, token, cid, ok, gatewayOk)
    \/ \E bearer \in BOOLEAN, token \in IssuedTokens \cup {MalformedToken}, user \in OwnerParams,
          postId \in Cids, balance \in 0 .. 1, ok \in BOOLEAN :
             FileByPostId(bearer, token, user, postId, balance, ok)

SpecReads == InitSession /\ [][NextReads]_vars

\* C31: GET /fileByCid answers 200, with the content of the cid, only when
\* the token verifies and the record of the cid is owned by the token's
\* address and is not onchain; in every other case it answers 401 or 404
\* and its answer carries no content.
C31_FileByCidOnlyForOwner ==
    \A bearer \in BOOLEAN, token \in PresentedTokens, cid \in Cids,
       ok \in BOOLEAN, gatewayOk \in BOOLEAN :
       LET r == FileByCidResponse(bearer, token, cid, ok, gatewayOk)
           entitled == /\ bearer
                       /\ verifyJWT(token, now) # Null
                       /\ ListByCid(files, cid) # {}
                       /\ Target(cid).keyvalues.owner = token.payload.address
                       /\ Target(cid).keyvalues.status # "onchain"
       IN  /\ r.code = 200 => entitled /\ r.text = cid
           /\ ~entitled => r.code \in {401, 404} /\ r.text \notin Cids

\* the endpoint has just given the owner the content of their pending
\* record, and refuses it to the valid token of the other address
C31_Witness ==
    /\ probe.routine = "fileByCid"
    /\ probe.at = now
    /\ probe.code = 200
    /\ probe.token \in IssuedTokens
    /\ \E other \in IssuedTokens :
          /\ verifyJWT(other, now) # Null
          /\ other.payload.address # probe.token.payload.address
          /\ FileByCidResponse(TRUE, other, probe.owner, TRUE, TRUE).code = 404

\* C32: GET /fileByPostId answers 200 only when the address of the token is
\* the post's author or holds a balance of the post; for a token of one
\* address and a user parameter naming another it does not answer 200.
C32_FileByPostIdOnlyForHolder ==
    \A token \in IssuedTokens, user \in OwnerParams, postId \in Cids, balance \in 0 .. 1 :
       LET r == FileByPostIdResponse(TRUE, token, user, postId, balance, TRUE) IN
       r.code = 200 =>
          /\ ToLower(user) = token.payload.address
          /\ ToLower(chain[postId]) = token.payload.address \/ balance > 0

----------------------------------------------------------------------------
(* Updates racing with webhooks and with each other                        *)

\* C33: the delete step of an update whose record a webhook has set onchain
\* since the update looked it up removes nothing.
C33_RacingUpdateSparesOnchain ==
    [][\A s \in Slots :
          (/\ reqs[s].op = "update" /\ reqs[s].pc = "delete"
           /\ reqs[s].fileId \in FileIds
           /\ files[reqs[s].fileId].keyvalues.status = "onchain"
           /\ UpdateDelete(s, TRUE))
             => files' = files ]_vars

\* C34: at every moment each group holds at most one record.
C34_OneRecordPerGroup ==
    \A i \in FileIds, j \in FileIds : files[i].group_id = files[j].group_id => i = j

\* C35: an authentic delivery of an event is answered 200 at the lookup only
\* when the store holds no pending record of the event's cid and author,
\* also when the lookup fails.
C35_SuccessMeansResolved ==
    /\ \A body \in AlchemyBodies, ok \in BOOLEAN :
          WebhookAlchemyResponse(body, AlchemySigned(body), ok).code = 200
             => ~PendingRecordOf(decodeAlchemyWebhookAssetData(body))
    /\ \A body \in QuickNodeBodies, ok \in BOOLEAN :
          WebhookQuickNodeResponse(body, QuickNodeSigned(body), ok).code = 200
             => ~PendingRecordOf(decodeQuickNodeWebhookAssetData(body))

----------------------------------------------------------------------------
(* Redelivery: each channel delivers the event of a minted draft again     *)
(* until it has received 200, while the owner goes on saving the draft.    *)

Channels == {"alchemy", "quicknode"}

\* the draft is pending and its cid has just been minted by its owner
InitRedeliver ==
    /\ files = <<[cid |-> "Qm1", name |-> "n1", group_id |-> 1,
                  keyvalues |-> [owner |-> "0xaa", status |-> "pending"]]>>
    /\ groups = <<"n1">>
    /\ thumbnails = {}
    /\ chain = [c \in Cids |-> IF c = "Qm1" THEN "0xAA" ELSE NoAuthor]
    /\ now = StartTime
    /\ reqs = [s \in Slots |-> Idle]
    /\ faults = 0
    /\ applied = NoIntents
    /\ base = files
    /\ deliveries = NoDeliveries
    /\ probe = NoProbe

Settles(channel, r) ==
    /\ deliveries' = IF r.code = 200
                     THEN [deliveries EXCEPT !.settled = @ \cup {channel}]
                     ELSE deliveries
    /\ UNCHANGED <<applied, base, probe>>

\* a channel that has not yet received 200 and has no delivery in flight
\* delivers the event, signed
Redeliver(channel, ok) ==
    /\ channel \notin deliveries.settled
    /\ \A s \in Slots : reqs[s].op # channel
    /\ \E c \in MintedCids :
          LET event == <<AssetAdded(c, chain[c])>> IN
          IF channel = "alchemy"
          THEN /\ WebhookAlchemy(event, AlchemySigned(event), ok)
               /\ Settles(channel, WebhookAlchemyResponse(event, AlchemySigned(event), ok))
          ELSE /\ WebhookQuickNode(<<event>>, QuickNodeSigned(<<event>>), ok)
               /\ Settles(channel, WebhookQuickNodeResponse(<<event>>, QuickNodeSigned(<<event>>), ok))

RedeliveryAnswered(s, ok) ==
    /\ WebhookStatus(s, ok)
    /\ Settles(reqs[s].op, WebhookStatusResponse(s, ok))

OwnerSaves ==
    \/ \E p \in Proofs, cid \in Cids, content \in Contents, ok \in BOOLEAN :
          UpdateFile(p, cid, content, ok) /\ UNCHANGED history
    \/ \E s \in Slots, ok \in BOOLEAN : UpdateDelete(s, ok) /\ UNCHANGED history
    \/ \E s \in Slots, ok \in BOOLEAN : UpdateUpload(s, ok) /\ UNCHANGED history

NextRedeliver ==
    \/ \E channel \in Channels, ok \in BOOLEAN : Redeliver(channel, ok)
    \/ \E s \in Slots, ok \in BOOLEAN : RedeliveryAnswered(s, ok)
    \/ OwnerSaves

\* every handler that has begun runs to its answer, and a channel that is
\* owed a delivery gets to make it
Fairness ==
    /\ \A channel \in Channels : SF_vars(\E ok \in BOOLEAN : Redeliver(channel, ok))
    /\ \A s \in Slots :
          /\ WF_vars(\E ok \in BOOLEAN : RedeliveryAnswered(s, ok))
          /\ WF_vars(\E ok \in BOOLEAN : UpdateDelete(s, ok) /\ UNCHANGED history)
          /\ WF_vars(\E ok \in BOOLEAN : UpdateUpload(s, ok) /\ UNCHANGED history)

SpecRedeliver == InitRedeliver /\ [][NextRedeliver]_vars /\ Fairness

\* C36: the draft that was pending when its cid was minted is, from some
\* moment on and forever, in the store with status onchain.
C36_EventuallyOnchainForever ==
    <>[](\A c \in MintedCids : OnchainRecordOf(AssetAdded(c, chain[c])))

----------------------------------------------------------------------------
(* Requests the caller got wrong                                           *)

ClientErrors == {400, 401, 404}

\* C37: a create, update, delete or publish request that is answered 400,
\* 401 or 404 changes neither the store nor the handlers in flight, and
\* these answers are given only at a handler's first step, before any of
\* its writes.
C37_ClientErrorsChangeNothing ==
    /\ \A p \in Proofs, cid \in Cids, ok \in BOOLEAN :
          /\ CreateGroupResponse(p, ok).code \in ClientErrors
                => ~ENABLED (/\ \E content \in Contents : CreateGroup(p, content, ok)
                             /\ UNCHANGED history /\ mutable' # mutable)
          /\ UpdateFileResponse(p, cid, ok).code \in ClientErrors
                => ~ENABLED (/\ \E content \in Contents : UpdateFile(p, cid, content, ok)
                             /\ UNCHANGED history /\ mutable' # mutable)
          /\ \A chainOk \in BOOLEAN :
                DeleteFileResponse(p, cid, chainOk, ok).code \in ClientErrors
                   => ~ENABLED (/\ DeleteFile(p, cid, chainOk, ok)
                                /\ UNCHANGED history /\ mutable' # mutable)
          /\ \A thumbnail \in BOOLEAN :
                PublishFileResponse(p, cid, thumbnail, ok).code \in ClientErrors
                   => ~ENABLED (/\ \E hashtags \in HashtagInputs :
                                     PublishFile(p, cid, hashtags, thumbnail, ok)
                                /\ UNCHANGED history /\ mutable' # mutable)
    /\ \A s \in Slots, ok \in BOOLEAN :
          /\ (reqs[s].op = "create" /\ reqs[s].pc = "upload")
                => CreateUploadResponse(s, ok).code \notin ClientErrors
          /\ (reqs[s].op = "create" /\ reqs[s].pc = "status")
                => CreateStatusResponse(s, ok).code \notin ClientErrors
          /\ (reqs[s].op = "update" /\ reqs[s].pc = "upload")
                => UpdateUploadResponse(s, ok).code \notin ClientErrors
          /\ (reqs[s].op = "publish" /\ reqs[s].pc = "tags")
                => PublishTagsResponse(s, ok).code \notin ClientErrors
          /\ (reqs[s].op = "publish" /\ reqs[s].pc = "thumbnail")
                => PublishThumbnailResponse(s, ok).code \notin ClientErrors
          /\ (reqs[s].op = "delete" /\ reqs[s].pc = "delete")
                => DeleteDeleteResponse(s, ok).code \notin ClientErrors

\* the store holds a draft, an update of it is about to delete it, and
\* requests of each kind are now answered 400, 401 and 404
C37_Witness ==
    /\ \E s \in Slots : reqs[s].op = "update" /\ reqs[s].pc = "delete"
    /\ files # <<>>
    /\ HasFreeSlot
    /\ \E p \in Proofs, cid \in Cids :
          /\ CreateGroupResponse(p, TRUE).code = 401
          /\ DeleteFileResponse(p, cid, TRUE, TRUE).code = 401
    /\ \E p \in Proofs, cid \in Cids :
          /\ UpdateFileResponse(p, cid, TRUE).code = 400
          /\ PublishFileResponse(p, cid, FALSE, TRUE).code = 400
    /\ \E p \in Proofs, cid \in Cids :
          /\ UpdateFileResponse(p, cid, TRUE).code = 404
          /\ DeleteFileResponse(p, cid, TRUE, TRUE).code = 404
          /\ PublishFileResponse(p, cid, TRUE, TRUE).code = 404

====
